---------------------------- MODULE Spec2Model ----------------------------
(***************************************************************************)
(* The forum client: the community creation modal                          *)
(* (CreateCommunityModal.tsx), the communities page (communities.tsx) and  *)
(* the post list (Posts component), as clients of a remote document store. *)
(*                                                                         *)
(* Every async handler is cut at its awaits: the part up to the await is   *)
(* one action, the store's handling of the request and the continuation    *)
(* after the await are further actions, so that other clients and other    *)
(* handlers interleave exactly where the event loop lets them.             *)
(*                                                                         *)
(* A name is the sequence of its characters' code points; a user-visible   *)
(* message is a sequence of text fragments (the empty message is <<>>).    *)
(***************************************************************************)
EXTENDS Integers, Sequences, FiniteSets, TLC

(***************************************************************************)
(* Bounds of the model.                                                    *)
(***************************************************************************)
\* Browser sessions that have the creation modal.
NumClients == 2
\* Invocations of handleCreateCommunity, all sessions together.
MaxCalls == 2
\* Length of the exhaustively enumerated typed names.
MaxLen == 3
\* Invocations of getCommunities on the communities page.
MaxLoads == 2
\* Communities of the populated store.
MaxCommunities == 11
\* Posts of the populated store.
MaxPosts == 5
\* Mounts of the Posts component.
MaxMounts == 2

(***************************************************************************)
(* Program constants.                                                      *)
(***************************************************************************)
communityNameLengthLimit == 25
MinNameLength == 3
\* Attempts of one runTransaction (the store client's default).
MaxAttempts == 5
PageSize == 5
ViewMoreExtra == 5

Clients == 1..NumClients
PrivacyTypes == {"public", "restricted", "private"}

\* Characters are their code points: 97 is a, 90 is Z, 55 is 7, 95 is _.
\* The character class of the regular expression of handleCreateCommunity:
\* space ! " # $ % & ' ( ) * + , - . / : ; < = > ? @ [ \ ] ^ _ ` { | } ~
ForbiddenChars ==
    {32, 33, 34, 35, 36, 37, 38, 39, 40, 41, 42, 43, 44, 45, 46, 47,
     58, 59, 60, 61, 62, 63, 64, 91, 92, 93, 94, 95, 96, 123, 124, 125, 126}

Letters == (65..90) \cup (97..122)
Digits == 48..57

NoError == <<>>
FormatMessage == <<"Community name can only contain letters and numbers">>
LengthMessage == <<"Community name must be at least 3 characters long">>
TakenMessage(name) ==
    <<"The community ", name, " is already taken. Try a different name! ">>
\* The message of the store client's own error (transport or service failure).
ServiceMessage == <<"FirebaseError: the service is unavailable">>

VARIABLES
    communityDocs,   \* store: collection "communities", a set of documents
    snippetDocs,     \* store: users/{uid}/communitySnippets, a set of documents
    uid,             \* per session: user?.uid of useAuthState(auth)
    communityName,   \* per session: useState("")
    communityType,   \* per session: useState("public")
    error,           \* per session: useState("")
    modalLoading,    \* per session: useState(false) of the modal
    routerPath,      \* per session: the last router.push target, <<>> if none
    pc,              \* per session: where handleCreateCommunity is suspended
    txName,          \* per session: communityName captured by the latest call
    txType,          \* per session: communityType captured by the latest call
    txUid,           \* per session: user?.uid captured by the latest call
    attempt,         \* per session: attempts of the latest runTransaction
    finished,        \* per session: history of the ended calls, oldest first
    page,            \* session 1: the page shown, "communities", "community" or "none"
    communities,     \* communities page: useState<Community[]>([])
    communitiesLoading, \* communities page: useState(false)
    issued,          \* communities page: getCommunities invocations so far
    queries,         \* communities page: the getDocs requests in flight
    responses,       \* communities page: history of handled responses, oldest first
    postDocs,        \* store: collection "posts", a set of documents
    posts,           \* postStateValue.posts (application-wide state)
    postsLoading,    \* Posts component: useState(false) of the mounted instance
    postsInstance,   \* Posts component: number of the mounted instance, 0 if none
    mounts,          \* Posts component: instances mounted so far
    postQueries,     \* Posts component: the getDocs requests in flight
    postResponses    \* history of the handled post responses, oldest first

createVars == <<uid, communityName, communityType, error, modalLoading,
                routerPath, pc, txName, txType, txUid, attempt, finished>>
storeVars == <<communityDocs, snippetDocs>>
listVars == <<communities, communitiesLoading, issued, queries, responses>>
postVars == <<postDocs, posts, postsLoading, postsInstance, mounts, postQueries,
              postResponses>>
vars == <<storeVars, createVars, page, listVars, postVars>>

(***************************************************************************)
(* The store.                                                              *)
(***************************************************************************)
\* transaction.get(communityDocRef) followed by communityDoc.exists()
DocExists(name) == \E d \in communityDocs : d.id = name

\* The document of the first transaction.set
NewCommunity(c) ==
    [id |-> txName[c], creatorId |-> txUid[c], numberOfMembers |-> 1,
     privacyType |-> txType[c]]

\* The document of the second transaction.set
NewSnippet(c) ==
    [uid |-> txUid[c], id |-> txName[c], communityId |-> txName[c],
     isAdmin |-> TRUE]

\* set() replaces the document at its key
SetCommunity(docs, d) == {e \in docs : e.id # d.id} \cup {d}

SetSnippet(docs, s) ==
    {e \in docs : ~(e.uid = s.uid /\ e.id = s.id)} \cup {s}

(***************************************************************************)
(* The creation modal.                                                     *)
(***************************************************************************)
\* The class is that of a non-word character: the underscore passes.
FormatTestNonWord(name) ==
    \E i \in 1..Len(name) : name[i] \in ForbiddenChars \ {95}

\* format.test(communityName)
FormatTest(name) == \E i \in 1..Len(name) : name[i] \in ForbiddenChars

\* communityName.length < 3
TooShort(name) == Len(name) < MinNameLength

\* Invocations of handleCreateCommunity so far, of one session and of all.
Started(c) == Len(finished[c]) + (IF pc[c] = "idle" THEN 0 ELSE 1)

AllStarted ==
    Cardinality(UNION {{<<c, k>> : k \in 1..Started(c)} : c \in Clients})

Ended(c, name, how) ==
    finished' = [finished EXCEPT ![c] = Append(@, [name |-> name, outcome |-> how])]

HandleChange(c, value) ==
    /\ IF Len(value) > communityNameLengthLimit
       THEN UNCHANGED communityName
       ELSE communityName' = [communityName EXCEPT ![c] = value]
    /\ UNCHANGED <<page, listVars, postVars, storeVars, uid, communityType, error, modalLoading,
                   routerPath, pc, txName, txType, txUid, attempt, finished>>

OnCommunityTypeChange(c, name) ==
    /\ communityType' = [communityType EXCEPT ![c] = name]
    /\ UNCHANGED <<page, listVars, postVars, storeVars, uid, communityName, error, modalLoading,
                   routerPath, pc, txName, txType, txUid, attempt, finished>>

\* The click handler up to its first await.  The button is disabled while
\* the modal is loading (isLoading={loading}).
HandleCreateCommunity(c) ==
    /\ ~modalLoading[c]
    /\ pc[c] = "idle"
    /\ AllStarted < MaxCalls
    /\ IF FormatTest(communityName[c])
       THEN /\ error' = [error EXCEPT ![c] = FormatMessage]
            /\ Ended(c, communityName[c], "validation")
            /\ UNCHANGED <<modalLoading, pc, txName, txType, txUid, attempt>>
       ELSE IF TooShort(communityName[c])
       THEN /\ error' = [error EXCEPT ![c] = LengthMessage]
            /\ Ended(c, communityName[c], "validation")
            /\ UNCHANGED <<modalLoading, pc, txName, txType, txUid, attempt>>
       ELSE /\ error' = [error EXCEPT ![c] = NoError]
            /\ modalLoading' = [modalLoading EXCEPT ![c] = TRUE]
            /\ pc' = [pc EXCEPT ![c] = "get"]
            /\ txName' = [txName EXCEPT ![c] = communityName[c]]
            /\ txType' = [txType EXCEPT ![c] = communityType[c]]
            /\ txUid' = [txUid EXCEPT ![c] = uid[c]]
            /\ attempt' = [attempt EXCEPT ![c] = 1]
            /\ UNCHANGED finished
    /\ UNCHANGED <<page, listVars, postVars, storeVars, uid, communityName, communityType, routerPath>>

\* The message is not shown.
CaughtMessageDropped(message) == NoError

\* setError(error.message)
CaughtMessage(message) == message

\* The catch block and the statement after it: the call ends with a message.
CatchError(c, message, how) ==
    /\ error' = [error EXCEPT ![c] = CaughtMessage(message)]
    /\ modalLoading' = [modalLoading EXCEPT ![c] = FALSE]
    /\ pc' = [pc EXCEPT ![c] = "idle"]
    /\ Ended(c, txName[c], how)

\* The store answers transaction.get.  A document that exists makes the
\* update function throw, which rejects runTransaction without a retry.
\* The update function does not look at what it read.
TakenCheckSkipped(c) == FALSE

\* communityDoc.exists()
TakenCheck(c) == DocExists(txName[c])

TransactionGet(c) ==
    /\ pc[c] = "get"
    /\ IF TakenCheck(c)
       THEN CatchError(c, TakenMessage(txName[c]), "conflict")
       ELSE /\ pc' = [pc EXCEPT ![c] = "commit"]
            /\ UNCHANGED <<error, modalLoading, finished>>
    /\ UNCHANGED <<txName, txType, txUid, attempt>>
    /\ UNCHANGED <<page, listVars, postVars, storeVars, uid, communityName, communityType, routerPath>>

\* The writes are sent without a transaction (getDoc, then setDoc): the
\* store applies them whatever happened since the read.
CommitAllowedBlind(c) == TRUE

\* runTransaction: the commit carries, for the document read as missing,
\* the precondition that it is still missing.
CommitAllowed(c) == ~DocExists(txName[c])

\* Only the community document is written (the snippet written on its own later).
CommitWritesCommunityOnly(c) ==
    /\ communityDocs' = SetCommunity(communityDocs, NewCommunity(c))
    /\ UNCHANGED snippetDocs

\* The two buffered writes, applied as one unit.
CommitWrites(c) ==
    /\ communityDocs' = SetCommunity(communityDocs, NewCommunity(c))
    /\ snippetDocs' = SetSnippet(snippetDocs, NewSnippet(c))

\* The store handles the commit: it applies both writes or, when the
\* document was created in the meantime, none; the client then runs the
\* update function again, or gives up after MaxAttempts attempts and
\* rejects runTransaction with the store's error.
TransactionCommit(c) ==
    /\ pc[c] = "commit"
    /\ IF CommitAllowed(c)
       THEN /\ CommitWrites(c)
            /\ pc' = [pc EXCEPT ![c] = "committed"]
            /\ UNCHANGED <<attempt, error, modalLoading, finished>>
       ELSE IF attempt[c] < MaxAttempts
       THEN /\ pc' = [pc EXCEPT ![c] = "get"]
            /\ attempt' = [attempt EXCEPT ![c] = @ + 1]
            /\ UNCHANGED <<storeVars, error, modalLoading, finished>>
       ELSE /\ CatchError(c, ServiceMessage, "aborted")
            /\ UNCHANGED <<storeVars, attempt>>
    /\ UNCHANGED <<txName, txType, txUid>>
    /\ UNCHANGED <<page, listVars, postVars, uid, communityName, communityType,
                   routerPath>>

\* runTransaction resolved: navigate, then the statement after the try.
TransactionResolved(c) ==
    /\ pc[c] = "committed"
    /\ routerPath' = [routerPath EXCEPT ![c] = txName[c]]
    /\ modalLoading' = [modalLoading EXCEPT ![c] = FALSE]
    /\ pc' = [pc EXCEPT ![c] = "idle"]
    /\ Ended(c, txName[c], "ok")
    /\ UNCHANGED <<txName, txType, txUid, attempt>>
    /\ UNCHANGED <<page, listVars, postVars, storeVars, uid, communityName,
                   communityType, error>>

\* runTransaction rejected by the store client itself: the request did not
\* reach the store or the service failed before applying anything.
TransactionRejected(c) ==
    /\ pc[c] \in {"get", "commit"}
    /\ CatchError(c, ServiceMessage, "txerror")
    /\ UNCHANGED <<txName, txType, txUid, attempt>>
    /\ UNCHANGED <<page, listVars, postVars, storeVars, uid, communityName, communityType, routerPath>>

(***************************************************************************)
(* The store's queries.                                                    *)
(***************************************************************************)
Rep(ch, n) == [i \in 1..n |-> ch]

\* Document keys compare as strings, character by character.
NameLess(x, y) ==
    \E k \in 1..Len(y) :
        /\ \A j \in 1..(k - 1) : j <= Len(x) /\ x[j] = y[j]
        /\ \/ k > Len(x)
           \/ x[k] < y[k]

\* orderBy(field, "desc"): larger field first, equal fields by key, descending.
Before(field, d, e) ==
    \/ d[field] > e[field]
    \/ d[field] = e[field] /\ NameLess(e.id, d.id)

RECURSIVE Ordered(_, _, _)
Ordered(field, docs, n) ==
    IF n = 0 \/ docs = {} THEN <<>>
    ELSE LET first == CHOOSE d \in docs : \A e \in docs \ {d} : Before(field, d, e)
         IN  <<first>> \o Ordered(field, docs \ {first}, n - 1)

(***************************************************************************)
(* The communities page.                                                   *)
(***************************************************************************)
\* A "View More" query keeps the limit of the mount-time query.
CommunityLimitFixed(numberOfExtraPosts) == PageSize

\* limit(5 + numberOfExtraPosts)
CommunityLimit(numberOfExtraPosts) == PageSize + numberOfExtraPosts

\* query(collection "communities", orderBy("numberOfMembers", "desc"), limit)
CommunityQuery(docs, numberOfExtraPosts) ==
    Ordered("numberOfMembers", docs, CommunityLimit(numberOfExtraPosts))

NewQuery(numberOfExtraPosts) ==
    [id |-> issued + 1, extra |-> numberOfExtraPosts, served |-> FALSE, docs |-> <<>>]

\* The Posts component is not on the page shown.
PostsUnmounted ==
    /\ postsInstance' = 0
    /\ postsLoading' = FALSE
    /\ UNCHANGED <<postDocs, posts, mounts, postQueries, postResponses>>

\* The communities page is not the page shown: its state is gone, and the
\* responses to its requests find no component to update.
CommunitiesUnmounted ==
    /\ communities' = <<>>
    /\ communitiesLoading' = FALSE
    /\ queries' = {}
    /\ responses' = <<>>
    /\ UNCHANGED issued

\* The page is mounted; useEffect(..., []) runs getCommunities(0) up to its
\* await.
CommunitiesMount ==
    /\ page # "communities"
    /\ issued < MaxLoads
    /\ page' = "communities"
    /\ communities' = <<>>
    /\ communitiesLoading' = TRUE
    /\ issued' = issued + 1
    /\ queries' = {NewQuery(0)}
    /\ responses' = <<>>
    /\ PostsUnmounted
    /\ UNCHANGED <<storeVars, createVars>>

\* The "View More" button, rendered (and enabled) whatever the loading
\* flag: getCommunities(5) up to its await.
ViewMore ==
    /\ page = "communities"
    /\ issued < MaxLoads
    /\ communitiesLoading' = TRUE
    /\ issued' = issued + 1
    /\ queries' = queries \cup {NewQuery(ViewMoreExtra)}
    /\ UNCHANGED <<communities, responses>>
    /\ UNCHANGED <<storeVars, createVars, page, postVars>>

\* The store evaluates the query.
GetDocsServed(q) ==
    /\ ~q.served
    /\ queries' = (queries \ {q}) \cup
           {[q EXCEPT !.served = TRUE, !.docs = CommunityQuery(communityDocs, q.extra)]}
    /\ UNCHANGED <<communities, communitiesLoading, issued, responses>>
    /\ UNCHANGED <<storeVars, createVars, page, postVars>>

\* A response is applied only if no later request has been issued.
ApplyCommunitiesSequenced(q) == IF q.id = issued THEN q.docs ELSE communities

\* setCommunities(communities as Community[])
ApplyCommunities(q) == q.docs

\* The flag is left set when the query fails.
CommunitiesFinallySkipped(ok) == IF ok THEN FALSE ELSE communitiesLoading

\* finally { setLoading(false) }
CommunitiesFinally(ok) == FALSE

\* The response arrives: the try block after the await, then finally.
GetCommunitiesResolved(q) ==
    /\ q.served
    /\ communities' = ApplyCommunities(q)
    /\ communitiesLoading' = CommunitiesFinally(TRUE)
    /\ queries' = queries \ {q}
    /\ responses' = Append(responses, [id |-> q.id, extra |-> q.extra, ok |-> TRUE])
    /\ UNCHANGED issued
    /\ UNCHANGED <<storeVars, createVars, page, postVars>>

\* The query fails: the catch block (a log line), then finally.
GetCommunitiesRejected(q) ==
    /\ communitiesLoading' = CommunitiesFinally(FALSE)
    /\ queries' = queries \ {q}
    /\ responses' = Append(responses, [id |-> q.id, extra |-> q.extra, ok |-> FALSE])
    /\ UNCHANGED <<communities, issued>>
    /\ UNCHANGED <<storeVars, createVars, page, postVars>>

\* What the page renders besides the list and its placeholders: no message.
CommunitiesMessage == NoError

(***************************************************************************)
(* The post list.                                                          *)
(***************************************************************************)
\* The where clause is dropped: every post of the store is returned.
PostFilterNone(docs, communityId) == docs

\* where("communityId", "==", communityData.id)
PostFilter(docs, communityId) == {d \in docs : d.communityId = communityId}

\* query(collection "posts", where(...), orderBy("createTime", "desc"))
PostQuery(docs, communityId) ==
    Ordered("createTime", PostFilter(docs, communityId),
            Cardinality(PostFilter(docs, communityId)))

\* A community page is shown: its Posts component is mounted and its effect
\* runs getPosts up to the await.
PostsMount(communityId) ==
    /\ page # "community"
    /\ mounts < MaxMounts
    /\ page' = "community"
    /\ mounts' = mounts + 1
    /\ postsInstance' = mounts + 1
    /\ postsLoading' = TRUE
    /\ postQueries' = postQueries \cup
           {[instance |-> mounts + 1, communityId |-> communityId,
             served |-> FALSE, docs |-> <<>>]}
    /\ UNCHANGED <<postDocs, posts, postResponses>>
    /\ CommunitiesUnmounted
    /\ UNCHANGED <<storeVars, createVars>>

\* The session moves to a page that shows neither component.
Leave ==
    /\ page # "none"
    /\ page' = "none"
    /\ PostsUnmounted
    /\ CommunitiesUnmounted
    /\ UNCHANGED <<storeVars, createVars>>

\* The store evaluates the query.
GetPostDocsServed(q) ==
    /\ ~q.served
    /\ postQueries' = (postQueries \ {q}) \cup
           {[q EXCEPT !.served = TRUE, !.docs = PostQuery(postDocs, q.communityId)]}
    /\ UNCHANGED <<postDocs, posts, postsLoading, postsInstance, mounts, postResponses>>
    /\ UNCHANGED <<storeVars, createVars, page, listVars>>

\* setPostStateValue((prev) => ({ ...prev, posts }))
ApplyPosts(q) == q.docs

\* finally { setLoading(false) } of the instance that issued q: a state
\* update of an instance that is no longer mounted changes nothing.
PostsFinally(q) ==
    IF q.instance = postsInstance THEN FALSE ELSE postsLoading

GetPostsResolved(q) ==
    /\ q.served
    /\ posts' = ApplyPosts(q)
    /\ postsLoading' = PostsFinally(q)
    /\ postQueries' = postQueries \ {q}
    /\ postResponses' = Append(postResponses, [communityId |-> q.communityId, ok |-> TRUE])
    /\ UNCHANGED <<postDocs, postsInstance, mounts>>
    /\ UNCHANGED <<storeVars, createVars, page, listVars>>

GetPostsRejected(q) ==
    /\ postsLoading' = PostsFinally(q)
    /\ postQueries' = postQueries \ {q}
    /\ postResponses' = Append(postResponses, [communityId |-> q.communityId, ok |-> FALSE])
    /\ UNCHANGED <<postDocs, posts, postsInstance, mounts>>
    /\ UNCHANGED <<storeVars, createVars, page, listVars>>

\* What the component renders besides the posts and their placeholder: no message.
PostsMessage == NoError

(***************************************************************************)
(* Initial states.                                                         *)
(***************************************************************************)
InitModal ==
    /\ uid = [c \in Clients |-> IF c % 2 = 1 THEN "u1" ELSE "u2"]
    /\ communityName = [c \in Clients |-> <<>>]
    /\ communityType = [c \in Clients |-> "public"]
    /\ error = [c \in Clients |-> NoError]
    /\ modalLoading = [c \in Clients |-> FALSE]
    /\ routerPath = [c \in Clients |-> <<>>]
    /\ pc = [c \in Clients |-> "idle"]
    /\ txName = [c \in Clients |-> <<>>]
    /\ txType = [c \in Clients |-> ""]
    /\ txUid = [c \in Clients |-> ""]
    /\ attempt = [c \in Clients |-> 0]
    /\ finished = [c \in Clients |-> <<>>]

InitPage ==
    /\ page = "none"
    /\ communities = <<>>
    /\ communitiesLoading = FALSE
    /\ issued = 0
    /\ queries = {}
    /\ responses = <<>>

InitPosts ==
    /\ posts = <<>>
    /\ postsLoading = FALSE
    /\ postsInstance = 0
    /\ mounts = 0
    /\ postQueries = {}
    /\ postResponses = <<>>

\* Communities created earlier, whose members joined since.
SeedCommunity(i, members) ==
    [id |-> Rep(99, i + 2), creatorId |-> "u1", numberOfMembers |-> members,
     privacyType |-> "public"]

SeedStore(count, step, modulus) ==
    {SeedCommunity(i, 1 + ((i * step) % modulus)) : i \in 1..count}

MemberPatterns == {<<1, 1>>, <<1, 4>>, <<3, 5>>, <<5, 7>>}

CommunityA == Rep(99, 3)
CommunityB == Rep(99, 4)

SeedPost(i) ==
    [id |-> Rep(112, i),
     communityId |-> IF i % 2 = 1 THEN CommunityA ELSE CommunityB,
     createTime |-> 1 + ((i * 3) % 4)]

PostUniverse == {SeedPost(i) : i \in 1..MaxPosts}

(***************************************************************************)
(* Concurrent creation: several sessions, few names.                       *)
(***************************************************************************)
RaceNames == {<<97, 98, 99>>, Rep(97, communityNameLengthLimit + 1)}
RaceTypes == {"public", "restricted"}

InitCreate ==
    /\ communityDocs = {}
    /\ snippetDocs = {}
    /\ postDocs = {}
    /\ InitModal
    /\ InitPage
    /\ InitPosts

NextCreate ==
    \E c \in Clients :
        \/ \E value \in RaceNames : HandleChange(c, value)
        \/ \E name \in RaceTypes : OnCommunityTypeChange(c, name)
        \/ HandleCreateCommunity(c)
        \/ TransactionGet(c)
        \/ TransactionCommit(c)
        \/ TransactionResolved(c)
        \/ TransactionRejected(c)

SpecCreate == InitCreate /\ [][NextCreate]_vars

(***************************************************************************)
(* Validation: one session, every typed name.                              *)
(***************************************************************************)
\* a, Z, 7, _, the space, and the tab, which the class does not hold.
Alphabet == {97, 90, 55, 95, 32, 9}

ShortNames == UNION {[1..n -> Alphabet] : n \in 0..MaxLen}

\* Names of exactly communityNameLengthLimit characters.
LongNames == {Rep(97, communityNameLengthLimit - Len(s)) \o s : s \in ShortNames}

\* One name for every character of the class.
ClassNames == {<<97, ch, 55>> : ch \in ForbiddenChars}

TypedNames == ShortNames \cup LongNames \cup ClassNames

InitValidate ==
    /\ communityDocs = {}
    /\ snippetDocs = {}
    /\ postDocs = {}
    /\ uid = [c \in Clients |-> IF c % 2 = 1 THEN "u1" ELSE "u2"]
    /\ communityName \in {[c \in Clients |-> IF c = 1 THEN n ELSE <<>>] : n \in TypedNames}
    /\ communityType \in {[c \in Clients |-> IF c = 1 THEN t ELSE "public"] : t \in PrivacyTypes}
    /\ error = [c \in Clients |-> NoError]
    /\ modalLoading = [c \in Clients |-> FALSE]
    /\ routerPath = [c \in Clients |-> <<>>]
    /\ pc = [c \in Clients |-> "idle"]
    /\ txName = [c \in Clients |-> <<>>]
    /\ txType = [c \in Clients |-> ""]
    /\ txUid = [c \in Clients |-> ""]
    /\ attempt = [c \in Clients |-> 0]
    /\ finished = [c \in Clients |-> <<>>]
    /\ InitPage
    /\ InitPosts

NextValidate ==
    \/ HandleCreateCommunity(1)
    \/ TransactionGet(1)
    \/ TransactionCommit(1)
    \/ TransactionResolved(1)
    \/ TransactionRejected(1)

SpecValidate == InitValidate /\ [][NextValidate]_vars

(***************************************************************************)
(* The communities page over a populated store.                            *)
(***************************************************************************)
NextPage ==
    \/ CommunitiesMount
    \/ ViewMore
    \/ \E q \in queries : GetDocsServed(q)
    \/ \E q \in queries : GetCommunitiesResolved(q)
    \/ \E q \in queries : GetCommunitiesRejected(q)

InitList ==
    /\ communityDocs \in
           {SeedStore(count, p[1], p[2]) : count \in 0..MaxCommunities, p \in MemberPatterns}
    /\ snippetDocs = {}
    /\ postDocs = {}
    /\ InitModal
    /\ InitPage
    /\ InitPosts

SpecList == InitList /\ [][NextPage]_vars

(***************************************************************************)
(* The post list over a populated store.                                   *)
(***************************************************************************)
NextPosts ==
    \/ \E communityId \in {CommunityA, CommunityB} : PostsMount(communityId)
    \/ Leave
    \/ \E q \in postQueries : GetPostDocsServed(q)
    \/ \E q \in postQueries : GetPostsResolved(q)
    \/ \E q \in postQueries : GetPostsRejected(q)

InitPostList ==
    /\ communityDocs = {}
    /\ snippetDocs = {}
    /\ postDocs \in SUBSET PostUniverse
    /\ InitModal
    /\ InitPage
    /\ InitPosts

SpecPosts == InitPostList /\ [][NextPosts]_vars

(***************************************************************************)
(* The application: one session with the modal, the communities page and   *)
(* the post list over one store.                                           *)
(***************************************************************************)
Init ==
    /\ communityDocs = SeedStore(PageSize + 1, 1, 4)
    /\ snippetDocs = {}
    /\ postDocs = PostUniverse
    /\ InitModal
    /\ InitPage
    /\ InitPosts

Next ==
    \/ \E value \in {<<97, 98, 99>>} : HandleChange(1, value)
    \/ HandleCreateCommunity(1)
    \/ TransactionGet(1)
    \/ TransactionCommit(1)
    \/ TransactionResolved(1)
    \/ TransactionRejected(1)
    \/ NextPage
    \/ PostsMount(CommunityA)
    \/ \E q \in postQueries : GetPostDocsServed(q)
    \/ \E q \in postQueries : GetPostsResolved(q)
    \/ \E q \in postQueries : GetPostsRejected(q)

Spec == Init /\ [][Next]_vars

(***************************************************************************)
(* Properties.                                                             *)
(***************************************************************************)
Last(seq) == seq[Len(seq)]

Min(a, b) == IF a <= b THEN a ELSE b

\* The ended calls for name with outcome how, as (session, index) pairs.
Entries(name, how) ==
    {x \in UNION {{<<c, k>> : k \in DOMAIN finished[c]} : c \in Clients} :
        /\ finished[x[1]][x[2]].name = name
        /\ finished[x[1]][x[2]].outcome = how}

TriedNames ==
    UNION {{finished[c][k].name : k \in DOMAIN finished[c]} : c \in Clients}
        \cup {txName[c] : c \in {d \in Clients : pc[d] # "idle"}}

InFlight(name) == {c \in Clients : pc[c] # "idle" /\ txName[c] = name}

DocsWithId(name) == {d \in communityDocs : d.id = name}

\* Every transaction for name that was started has been answered by the
\* store, and at least one was started.
AllAnswered(name) ==
    /\ InFlight(name) = {}
    /\ Entries(name, "txerror") = {}
    /\ Entries(name, "ok") \cup Entries(name, "conflict")
           \cup Entries(name, "aborted") # {}

\* C1: of the create calls for one name, however their transactions
\* interleave, at most one succeeds and the record exists at most once, with
\* one member; once the store has answered all of them, exactly one has
\* succeeded, every other one has ended with the 'already taken' conflict,
\* and the record exists.
C1_ExactlyOneCreateWins ==
    \A name \in TriedNames :
        /\ Cardinality(Entries(name, "ok")) <= 1
        /\ Cardinality(DocsWithId(name)) <= 1
        /\ \A d \in DocsWithId(name) : d.numberOfMembers = 1
        /\ AllAnswered(name) =>
              /\ Cardinality(Entries(name, "ok")) = 1
              /\ Entries(name, "aborted") = {}
              /\ Cardinality(DocsWithId(name)) = 1
              /\ \A c \in Clients :
                    pc[c] = "idle" /\ finished[c] # <<>>
                        /\ Last(finished[c]).name = name
                        /\ Last(finished[c]).outcome = "conflict"
                    => error[c] = TakenMessage(name)

\* Two calls for one name raced: the loser read the name as free, failed
\* its commit, ran again and found the name taken.
C1_Witness ==
    \E c1, c2 \in Clients :
        /\ c1 # c2
        /\ pc[c1] = "idle" /\ pc[c2] = "idle"
        /\ finished[c1] # <<>> /\ finished[c2] # <<>>
        /\ Last(finished[c1]).outcome = "ok"
        /\ Last(finished[c2]).outcome = "conflict"
        /\ attempt[c2] = 2
        /\ Last(finished[c1]).name = Last(finished[c2]).name
        /\ AllAnswered(Last(finished[c1]).name)

\* C2: in every state of the store, a community record with creator U
\* exists for a name exactly if U's membership snippet for that name exists,
\* with communityId the name and admin set.
C2_CreationAllOrNothing ==
    /\ \A d \in communityDocs :
          \E s \in snippetDocs :
              s.uid = d.creatorId /\ s.id = d.id /\ s.communityId = d.id /\ s.isAdmin
    /\ \A s \in snippetDocs :
          /\ s.communityId = s.id
          /\ s.isAdmin
          /\ \E d \in communityDocs : d.id = s.id /\ d.creatorId = s.uid

\* A record was written while another transaction for the name was aborted.
C2_Witness ==
    /\ communityDocs # {}
    /\ \E c \in Clients :
          /\ finished[c] # <<>>
          /\ Last(finished[c]).outcome \in {"conflict", "txerror"}
          /\ DocsWithId(Last(finished[c]).name) # {}

HasForbiddenChar(name) == \E k \in DOMAIN name : name[k] \in ForbiddenChars

OnlyLettersAndDigits(name) == \A k \in DOMAIN name : name[k] \in Letters \cup Digits

C4_ExistingCommunityUntouched ==
    [][\A d \in communityDocs :
          /\ d \in communityDocs'
          /\ {s \in snippetDocs' : s.id = d.id} = {s \in snippetDocs : s.id = d.id}
          /\ \A c \in Clients :
                (txName[c] = d.id /\ pc[c] \in {"get", "commit"} /\ pc'[c] = "idle") =>
                    \/ Last(finished'[c]).outcome = "txerror"
                    \/ /\ Last(finished'[c]).outcome = "conflict"
                       /\ error'[c] = TakenMessage(d.id)]_vars

\* A call by another user, with another privacy type, ended in the conflict
\* at its first read, and the record is the first creator's.
C4_Witness ==
    \E c \in Clients, d \in communityDocs :
        /\ finished[c] # <<>>
        /\ Last(finished[c]).name = d.id
        /\ Last(finished[c]).outcome = "conflict"
        /\ attempt[c] = 1
        /\ d.creatorId # uid[c]
        /\ d.privacyType # txType[c]
        /\ ~\E s \in snippetDocs : s.uid = uid[c] /\ s.id = d.id

\* C5: when no call of a component is waiting for the store, the
\* component's loading flag is false: the modal's, the communities page's
\* and the mounted post list's.
C5_LoadingCleared ==
    /\ \A c \in Clients : pc[c] = "idle" => ~modalLoading[c]
    /\ queries = {} => ~communitiesLoading
    /\ (\A q \in postQueries : q.instance # postsInstance) => ~postsLoading

\* A failed create, a failed post query and a failed community query have
\* all been handled.
C5_Witness ==
    /\ finished[1] # <<>> /\ pc[1] = "idle"
    /\ Last(finished[1]).outcome = "txerror"
    /\ postResponses # <<>> /\ ~Last(postResponses).ok
    /\ page = "communities"
    /\ responses # <<>> /\ ~Last(responses).ok
    /\ queries = {}

\* C6: while a community list request waits for its response, the loading
\* flag is true.
C6_LoadingWhileInFlight == queries # {} => communitiesLoading

LastOkIndex == CHOOSE k \in DOMAIN responses :
                   responses[k].ok /\ \A j \in DOMAIN responses : responses[j].ok => j <= k

LastOkPosts == CHOOSE k \in DOMAIN postResponses :
                   postResponses[k].ok
                       /\ \A j \in DOMAIN postResponses : postResponses[j].ok => j <= k

\* C8: once a post load has succeeded, the container holds the posts of
\* the store of the community last loaded, all of them, each once, in
\* non-increasing creation time, and no post of another community.
C8_PostsOfTheCommunityOnly ==
    (\E k \in DOMAIN postResponses : postResponses[k].ok) =>
        LET community == postResponses[LastOkPosts].communityId
            shown == {posts[k] : k \in DOMAIN posts}
        IN  /\ shown = {d \in postDocs : d.communityId = community}
            /\ Cardinality(shown) = Len(posts)
            /\ \A j, k \in DOMAIN posts :
                  j < k => posts[j].createTime >= posts[k].createTime

\* The posts of one community were loaded into a container that held the
\* posts of the other.
C8_Witness ==
    /\ Len(postResponses) = 2
    /\ postResponses[1].ok /\ postResponses[2].ok
    /\ postResponses[1].communityId # postResponses[2].communityId
    /\ Len(posts) >= 2
    /\ \E d \in postDocs : d.communityId = postResponses[1].communityId

CreateFailed(c) ==
    /\ pc[c] = "idle"
    /\ finished[c] # <<>>
    /\ Last(finished[c]).outcome \in {"conflict", "txerror", "aborted"}

C10_LastResponseWins ==
    /\ [][(page = "communities" /\ page' = "communities") =>
             IF Len(responses') = Len(responses) + 1 /\ Last(responses').ok
             THEN \E q \in queries :
                      /\ q.id = Last(responses').id
                      /\ q.served
                      /\ communities' = q.docs
             ELSE communities' = communities]_vars
    /\ [](Len(responses) = 2 /\ responses[1].ok /\ responses[2].ok
             /\ responses[1].id = 2 /\ responses[2].id = 1
          => Len(communities) = Min(5, Cardinality(communityDocs)))

\* load(5) was answered before load(0): 10 communities were shown, 5 are.
C10_Witness ==
    /\ Len(responses) = 2
    /\ responses[1].id = 2 /\ responses[1].ok
    /\ responses[2].id = 1 /\ responses[2].ok
    /\ Cardinality(communityDocs) > 10
    /\ Len(communities) = 5

=============================================================================
